---- MODULE Spec2Model ----
(***************************************************************************)
(* Model of crates/rimui/src/text_editor.rs: the edit commands, the        *)
(* EditboxState operations and the click state machine.                    *)
(*                                                                         *)
(* A String is a sequence of bytes (numbers 0..255) holding valid UTF-8;   *)
(* offsets are byte offsets, 0-based as in the source, so byte i of the    *)
(* source is text[i+1] here.  A char is the sequence of its UTF-8 bytes.   *)
(***************************************************************************)
EXTENDS Integers, Sequences, FiniteSets, TLC

VARIABLES text,            \* the host's String, passed to every call
          cursor,          \* EditboxState.cursor
          click_state,     \* EditboxState.click_state
          clicks_counter,  \* EditboxState.clicks_counter
          current_click,   \* EditboxState.current_click
          last_click_time, \* EditboxState.last_click_time, in quarters
          last_click,      \* EditboxState.last_click
          selection,       \* EditboxState.selection
          undo_stack,      \* EditboxState.undo_stack
          redo_stack,      \* EditboxState.redo_stack
          panicked,        \* a call panicked (slice/insert/remove off range)
          op,              \* history: the last operation called
          recorded,        \* history: that call pushed or moved a command
          dropped,         \* history: redo entries that call discarded
          was,             \* history: the kind of click_state before the call
          undo_hist,       \* history: per undo_stack entry, state before/after
          redo_hist        \* history: per redo_stack entry, state before/after

vars == <<text, cursor, click_state, clicks_counter, current_click,
          last_click_time, last_click, selection, undo_stack, redo_stack,
          panicked, op, recorded, dropped, was, undo_hist, redo_hist>>

-----------------------------------------------------------------------------
(* Bounds of the model.                                                    *)

\* longest buffer, in bytes
MaxLen == 2
\* deepest undo stack
MaxHist == 2
\* deepest undo stack where the buffer is long or every operation runs
MaxEdits == 1
\* largest |dx| handed to move_cursor
MaxDelta == 1
\* largest |dx| handed to move_cursor where only the cursor moves
MaxJump == 2
\* largest clicks_counter followed
MaxClicks == 4
\* latest click timestamp, in quarters of a time unit
MaxTime == 4

-----------------------------------------------------------------------------
(* Bytes and chars.                                                        *)

NL == 10
SPACE == 32
QUOTE == 34
LPAREN == 40
RPAREN == 41
SEMI == 59

Min(a, b) == IF a <= b THEN a ELSE b
Max(a, b) == IF a >= b THEN a ELSE b

\* Option<(u32, u32)>::None, ClickState payloads absent
None == <<>>

\* a UTF-8 continuation byte, 10xxxxxx
IsContinuation(b) == b >= 128 /\ b < 192

\* str::is_char_boundary
IsCharBoundary(t, i) ==
    \/ i = 0
    \/ i = Len(t)
    \/ (i > 0 /\ i < Len(t) /\ ~IsContinuation(t[i + 1]))

\* encoded width of the char whose first byte is b
Utf8Width(b) ==
    IF b < 128 THEN 1 ELSE IF b < 224 THEN 2 ELSE IF b < 240 THEN 3 ELSE 4

\* text[i..].chars().next(), for i a boundary below Len(t)
CharAt(t, i) == SubSeq(t, i + 1, i + Utf8Width(t[i + 1]))

\* String::insert / String::insert_str; panics off a boundary
CanInsert(t, i) == i <= Len(t) /\ IsCharBoundary(t, i)
StrInsert(t, i, s) == SubSeq(t, 1, i) \o s \o SubSeq(t, i + 1, Len(t))

\* String::remove; panics at the end and off a boundary
CanRemove(t, i) == i < Len(t) /\ IsCharBoundary(t, i)
StrRemove(t, i) ==
    SubSeq(t, 1, i) \o SubSeq(t, i + Utf8Width(t[i + 1]) + 1, Len(t))

\* &text[lo..hi] and String::replace_range(lo..hi, ""); panic off range
CanSlice(t, lo, hi) ==
    lo <= hi /\ hi <= Len(t) /\ IsCharBoundary(t, lo) /\ IsCharBoundary(t, hi)
StrSlice(t, lo, hi) == SubSeq(t, lo + 1, hi)
StrCut(t, lo, hi) == SubSeq(t, 1, lo) \o SubSeq(t, hi + 1, Len(t))

-----------------------------------------------------------------------------
(* Edit commands (trait Command).  A command is a record                   *)
(* [kind, cursor, data, range]; `data` holds the bytes of the character    *)
(* or of the string.  apply/unapply return the new text and text_cursor,   *)
(* a panic, or an integer overflow of the cursor: the build decides         *)
(* whether that panics (debug) or wraps (release), where the re-alignment  *)
(* loop ends at offset 0.                                                  *)

Ok(t, c) == [text |-> t, cursor |-> c, panic |-> FALSE, overflow |-> FALSE]
Panic(t, c) == [text |-> t, cursor |-> c, panic |-> TRUE, overflow |-> FALSE]
Overflow(t) == [text |-> t, cursor |-> 0, panic |-> FALSE, overflow |-> TRUE]

\* the outcomes of a call whose command returned r
Outcome(r) == IF r.overflow THEN BOOLEAN ELSE {r.panic}

\* while !text.is_char_boundary(c) { c += 1 }: beyond the end no offset is
\* a boundary, the loop runs into the u32 overflow and wraps to 0 or panics
RECURSIVE AlignForward(_, _)
AlignForward(t, c) ==
    IF IsCharBoundary(t, c) THEN c
    ELSE IF c > Len(t) THEN -1
    ELSE AlignForward(t, c + 1)

\* while !text.is_char_boundary(c) { c -= 1 }
RECURSIVE AlignBackward(_, _)
AlignBackward(t, c) ==
    IF IsCharBoundary(t, c) THEN c ELSE AlignBackward(t, c - 1)

InsertCharacter_new(c, character) ==
    [kind |-> "InsertCharacter", cursor |-> c, data |-> character,
     range |-> <<0, 0>>]

InsertCharacter_apply(cmd, t) ==
    IF cmd.cursor <= Len(t) /\ ~CanInsert(t, cmd.cursor)
    THEN Panic(t, cmd.cursor)
    ELSE LET t2 == IF cmd.cursor <= Len(t)
                   THEN StrInsert(t, cmd.cursor, cmd.data) ELSE t
             c2 == AlignForward(t2, cmd.cursor + 1)
         IN  IF c2 >= 0 THEN Ok(t2, c2) ELSE Overflow(t2)

InsertCharacter_unapply(cmd, t) ==
    IF cmd.cursor < Len(t)
    THEN IF CanRemove(t, cmd.cursor)
         THEN Ok(StrRemove(t, cmd.cursor), cmd.cursor)
         ELSE Panic(t, cmd.cursor)
    ELSE Ok(t, cmd.cursor)

InsertString_new(c, data) ==
    [kind |-> "InsertString", cursor |-> c, data |-> data, range |-> <<0, 0>>]

InsertString_apply(cmd, t) ==
    IF cmd.cursor <= Len(t)
    THEN IF CanInsert(t, cmd.cursor)
         THEN Ok(StrInsert(t, cmd.cursor, cmd.data), cmd.cursor + Len(cmd.data))
         ELSE Panic(t, cmd.cursor)
    ELSE Ok(t, cmd.cursor + Len(cmd.data))

\* mutant: only the first byte of the inserted string is removed
InsertString_unapply_OneByte(cmd, t) ==
    IF cmd.cursor < Len(t)
    THEN Ok(StrCut(t, cmd.cursor, cmd.cursor + 1), cmd.cursor)
    ELSE Ok(t, cmd.cursor)

InsertString_unapply(cmd, t) ==
    IF cmd.cursor < Len(t)
    THEN LET end == Min(cmd.cursor + Len(cmd.data), Len(t))
         IN  IF CanSlice(t, cmd.cursor, end)
             THEN Ok(StrCut(t, cmd.cursor, end), cmd.cursor)
             ELSE Panic(t, cmd.cursor)
    ELSE Ok(t, cmd.cursor)

\* Option<DeleteCharacter>::None
NoCommand == [kind |-> "None", cursor |-> 0, data |-> <<>>, range |-> <<0, 0>>]

\* Option<DeleteCharacter>: None when nothing is at the cursor
DeleteCharacter_new(c, t) ==
    IF c < Len(t) /\ IsCharBoundary(t, c)
    THEN [kind |-> "DeleteCharacter", cursor |-> c, data |-> CharAt(t, c),
          range |-> <<0, 0>>]
    ELSE NoCommand

DeleteCharacter_apply(cmd, t) ==
    IF cmd.cursor < Len(t)
    THEN IF CanRemove(t, cmd.cursor)
         THEN Ok(StrRemove(t, cmd.cursor), cmd.cursor)
         ELSE Panic(t, cmd.cursor)
    ELSE Ok(t, cmd.cursor)

DeleteCharacter_unapply(cmd, t) ==
    IF cmd.cursor <= Len(t)
    THEN IF CanInsert(t, cmd.cursor)
         THEN Ok(StrInsert(t, cmd.cursor, cmd.data), cmd.cursor + 1)
         ELSE Panic(t, cmd.cursor + 1)
    ELSE Ok(t, cmd.cursor + 1)

\* DeleteRange::new slices text[min..max]; the caller checks CanSlice
DeleteRange_new(t, range) ==
    [kind |-> "DeleteRange", cursor |-> 0,
     data |-> StrSlice(t, Min(range[1], range[2]), Max(range[1], range[2])),
     range |-> range]

\* mutant: the cursor goes to the end of the range as given
DeleteRange_apply_CursorAtEnd(cmd, t) ==
    LET min == Min(cmd.range[1], cmd.range[2])
        max == Max(cmd.range[1], cmd.range[2])
    IN  IF CanSlice(t, min, max) THEN Ok(StrCut(t, min, max), cmd.range[2])
        ELSE Panic(t, min)

DeleteRange_apply(cmd, t) ==
    LET min == Min(cmd.range[1], cmd.range[2])
        max == Max(cmd.range[1], cmd.range[2])
    IN  IF CanSlice(t, min, max) THEN Ok(StrCut(t, min, max), min)
        ELSE Panic(t, min)

\* mutant: the data is put back at the upper bound of the range
DeleteRange_unapply_AtMax(cmd, t) ==
    LET start == Max(cmd.range[1], cmd.range[2])
    IN  IF CanInsert(t, start) THEN Ok(StrInsert(t, start, cmd.data), start)
        ELSE Ok(t \o cmd.data, start)

DeleteRange_unapply(cmd, t) ==
    LET start == Min(cmd.range[1], cmd.range[2])
    IN  IF CanInsert(t, start) THEN Ok(StrInsert(t, start, cmd.data), start)
        ELSE Panic(t, start)

\* dyn Command dispatch
Apply(cmd, t) ==
    CASE cmd.kind = "InsertCharacter" -> InsertCharacter_apply(cmd, t)
      [] cmd.kind = "InsertString" -> InsertString_apply(cmd, t)
      [] cmd.kind = "DeleteCharacter" -> DeleteCharacter_apply(cmd, t)
      [] cmd.kind = "DeleteRange" -> DeleteRange_apply(cmd, t)

Unapply(cmd, t) ==
    CASE cmd.kind = "InsertCharacter" -> InsertCharacter_unapply(cmd, t)
      [] cmd.kind = "InsertString" -> InsertString_unapply(cmd, t)
      [] cmd.kind = "DeleteCharacter" -> DeleteCharacter_unapply(cmd, t)
      [] cmd.kind = "DeleteRange" -> DeleteRange_unapply(cmd, t)

-----------------------------------------------------------------------------
(* Scans (find_line_begin .. find_word_end).  They return distances.       *)

word_delimeter(character) ==
    character \in {SPACE, LPAREN, RPAREN, SEMI, QUOTE}

RECURSIVE LineBeginScan(_, _)
LineBeginScan(t, cursor_tmp) ==
    IF cursor_tmp > 0 /\ t[cursor_tmp + 1] # NL
    THEN LineBeginScan(t, cursor_tmp - 1) ELSE cursor_tmp

\* mutant: the scan starts at len - 1 also when the buffer is empty
find_line_begin_NoClamp(t, c) == c - LineBeginScan(t, Min(c, Len(t) - 1))

find_line_begin(t, c) == c - LineBeginScan(t, Min(c, Max(Len(t), 1) - 1))

RECURSIVE LineEndScan(_, _)
LineEndScan(t, cursor_tmp) ==
    IF cursor_tmp < Len(t) /\ t[cursor_tmp + 1] # NL
    THEN LineEndScan(t, cursor_tmp + 1) ELSE cursor_tmp

find_line_end(t, c) == LineEndScan(t, Min(c, Len(t))) - c

RECURSIVE find_word_begin(_, _)
find_word_begin(t, cursor_tmp) ==
    IF cursor_tmp > 0
    THEN LET current_char ==
                 IF cursor_tmp < Len(t) THEN t[cursor_tmp + 1] ELSE SPACE
         IN  IF word_delimeter(current_char) \/ current_char = NL THEN 0
             ELSE 1 + find_word_begin(t, cursor_tmp - 1)
    ELSE 0

RECURSIVE WordEndScan(_, _, _)
WordEndScan(t, cursor_tmp, space_skipping) ==
    IF cursor_tmp < Len(t)
    THEN LET current_char == t[cursor_tmp + 1]
             skipping == space_skipping \/ word_delimeter(current_char)
                                        \/ current_char = NL
         IN  IF skipping /\ ~word_delimeter(current_char) THEN 0
             ELSE 1 + WordEndScan(t, cursor_tmp + 1, skipping)
    ELSE 0

\* mutant: the scan stops at the delimiter that ends the word
RECURSIVE find_word_end_AtDelimiter(_, _)
find_word_end_AtDelimiter(t, c) ==
    IF c < Len(t) /\ ~word_delimeter(t[c + 1]) /\ t[c + 1] # NL
    THEN 1 + find_word_end_AtDelimiter(t, c + 1) ELSE 0

find_word_end(t, c) == WordEndScan(t, c, FALSE)

-----------------------------------------------------------------------------
(* EditboxState.  Each operation is an action over the editor's fields and *)
(* the host's text.  A panic aborts the call: panicked becomes TRUE with   *)
(* the assignments made before the panic, and nothing is called again.     *)

\* timestamps are counted in quarters of a time unit: every such f32 and
\* every difference of two of them is exact
DOUBLE_CLICK_TIME == 2

ClickNone == [kind |-> "None", from |-> 0, to |-> 0]
SelectingChars(selection_begin) ==
    [kind |-> "SelectingChars", from |-> selection_begin, to |-> 0]
SelectingWords(selected_word) ==
    [kind |-> "SelectingWords", from |-> selected_word[1],
     to |-> selected_word[2]]
SelectingLines(selected_line) ==
    [kind |-> "SelectingLines", from |-> selected_line[1],
     to |-> selected_line[2]]
Selected == [kind |-> "Selected", from |-> 0, to |-> 0]

clickVars == <<click_state, clicks_counter, current_click, last_click_time,
               last_click>>

selected_text ==
    /\ ~panicked
    /\ panicked' = (selection # None /\
                    ~CanSlice(text, Min(selection[1], selection[2]),
                              Max(selection[1], selection[2])))
    /\ UNCHANGED <<text, cursor, clickVars, selection, undo_stack, redo_stack>>

\* mutant: the range is read as (start, end) whatever the order
in_selected_range_Forward(c) ==
    selection # None /\ c >= selection[1] /\ c < selection[2]

in_selected_range(c) ==
    IF selection = None THEN FALSE
    ELSE IF selection[1] < selection[2]
         THEN c >= selection[1] /\ c < selection[2]
         ELSE c >= selection[2] /\ c < selection[1]

insert_character(character) ==
    LET insert_command == InsertCharacter_new(cursor, character)
        r == InsertCharacter_apply(insert_command, text)
    IN  /\ ~panicked
        /\ redo_stack' = <<>>
        /\ selection' = None
        /\ text' = r.text
        /\ cursor' = r.cursor
        /\ panicked' \in Outcome(r)
        /\ undo_stack' = IF panicked' THEN undo_stack
                         ELSE Append(undo_stack, insert_command)
        /\ UNCHANGED clickVars

insert_string(string) ==
    LET insert_command == InsertString_new(cursor, string)
        r == InsertString_apply(insert_command, text)
    IN  /\ ~panicked
        /\ redo_stack' = <<>>
        /\ selection' = None
        /\ text' = r.text
        /\ cursor' = r.cursor
        /\ panicked' = r.panic
        /\ undo_stack' = IF r.panic THEN undo_stack
                         ELSE Append(undo_stack, insert_command)
        /\ UNCHANGED clickVars

delete_selected ==
    /\ ~panicked
    /\ redo_stack' = <<>>
    /\ IF selection = None
       THEN /\ selection' = None
            /\ UNCHANGED <<text, cursor, undo_stack, panicked>>
       ELSE IF ~CanSlice(text, Min(selection[1], selection[2]),
                         Max(selection[1], selection[2]))
       THEN /\ panicked' = TRUE
            /\ UNCHANGED <<text, cursor, undo_stack, selection>>
       ELSE LET delete_command == DeleteRange_new(text, selection)
                r == DeleteRange_apply(delete_command, text)
            IN  /\ text' = r.text
                /\ cursor' = r.cursor
                /\ undo_stack' = Append(undo_stack, delete_command)
                /\ selection' = None
                /\ UNCHANGED panicked
    /\ UNCHANGED clickVars

\* mutant: the redo stack is left alone
DeleteNextAt_KeepRedo(c) ==
    LET delete_command == DeleteCharacter_new(c, text)
    IN  /\ UNCHANGED redo_stack
        /\ IF delete_command = NoCommand
           THEN /\ cursor' = c
                /\ UNCHANGED <<text, undo_stack, panicked>>
           ELSE LET r == DeleteCharacter_apply(delete_command, text)
                IN  /\ text' = r.text
                    /\ cursor' = r.cursor
                    /\ panicked' = r.panic
                    /\ undo_stack' = Append(undo_stack, delete_command)
        /\ UNCHANGED <<selection, clickVars>>

\* delete_next_character with self.cursor = c on entry
DeleteNextAt(c) ==
    LET delete_command == DeleteCharacter_new(c, text)
    IN  /\ redo_stack' = <<>>
        /\ IF delete_command = NoCommand
           THEN /\ cursor' = c
                /\ UNCHANGED <<text, undo_stack, panicked>>
           ELSE LET r == DeleteCharacter_apply(delete_command, text)
                IN  /\ text' = r.text
                    /\ cursor' = r.cursor
                    /\ panicked' = r.panic
                    /\ undo_stack' = IF r.panic THEN undo_stack
                                     ELSE Append(undo_stack, delete_command)
        /\ UNCHANGED <<selection, clickVars>>

delete_next_character ==
    /\ ~panicked
    /\ DeleteNextAt(cursor)

delete_current_character ==
    /\ ~panicked
    /\ IF cursor > 0
       THEN DeleteNextAt(AlignBackward(text, cursor - 1))
       ELSE UNCHANGED <<text, cursor, clickVars, selection, undo_stack,
                        redo_stack, panicked>>

\* mutant: the cursor may stop in the middle of a character
MoveCursor_NoAlign(t, c, sel, dx, shift) ==
    LET c1 == IF c + dx <= Len(t) /\ c + dx >= 0 THEN c + dx ELSE c
    IN  [cursor |-> c1,
         selection |-> IF ~shift THEN None
                       ELSE IF sel = None THEN <<c, c1>> ELSE <<sel[1], c1>>,
         panic |-> FALSE, overflow |-> FALSE]

\* mutant: every extending move starts the selection anew
MoveCursor_NewAnchor(t, c, sel, dx, shift) ==
    LET c1 == IF c + dx <= Len(t) /\ c + dx >= 0 THEN c + dx ELSE c
        c2 == IF dx > 0 THEN AlignForward(t, c1)
              ELSE IF dx < 0 THEN AlignBackward(t, c1)
              ELSE c1
        end_cursor == IF c2 >= 0 THEN c2 ELSE 0
    IN  [cursor |-> end_cursor,
         selection |-> IF shift THEN <<c, end_cursor>> ELSE None,
         panic |-> FALSE, overflow |-> c2 < 0]

\* move_cursor on cursor c and selection sel: the new cursor and selection
MoveCursor(t, c, sel, dx, shift) ==
    LET start_cursor == c
        c1 == IF c + dx <= Len(t) /\ c + dx >= 0 THEN c + dx ELSE c
        c2 == IF dx > 0 THEN AlignForward(t, c1)
              ELSE IF dx < 0 THEN AlignBackward(t, c1)
              ELSE c1
        end_cursor == IF c2 >= 0 THEN c2 ELSE 0
        sel2 == IF ~shift THEN None
                ELSE IF sel = None THEN <<start_cursor, end_cursor>>
                ELSE <<sel[1], end_cursor>>
    IN  [cursor |-> end_cursor, selection |-> sel2, panic |-> FALSE,
         overflow |-> c2 < 0]

move_cursor(dx, shift) ==
    LET m == MoveCursor(text, cursor, selection, dx, shift)
    IN  /\ ~panicked
        /\ cursor' = m.cursor
        /\ selection' = m.selection
        /\ panicked' \in Outcome(m)
        /\ UNCHANGED <<text, clickVars, undo_stack, redo_stack>>

move_cursor_next_word(shift) ==
    LET next_word == find_word_end(text, cursor + 1) + 1
    IN  move_cursor(next_word, shift)

move_cursor_prev_word(shift) ==
    IF cursor > 1
    THEN LET prev_word == find_word_begin(text, cursor - 1) + 1
         IN  move_cursor(-prev_word, shift)
    ELSE /\ ~panicked
         /\ UNCHANGED <<text, cursor, clickVars, selection, undo_stack,
                        redo_stack, panicked>>

\* mutant: the newline is only noticed after the cursor has passed it
RECURSIVE WithinLine_PastNewline(_, _, _, _, _)
WithinLine_PastNewline(t, c, sel, n, shift) ==
    IF n = 0 \/ c >= Len(t) \/ (c > 0 /\ t[c] = NL)
    THEN [cursor |-> c, selection |-> sel, panic |-> FALSE,
          overflow |-> FALSE]
    ELSE LET m == MoveCursor(t, c, sel, 1, shift)
         IN  IF m.overflow THEN m
             ELSE WithinLine_PastNewline(t, m.cursor, m.selection, n - 1,
                                         shift)

\* the loop of move_cursor_within_line, n iterations left
RECURSIVE WithinLine(_, _, _, _, _)
WithinLine(t, c, sel, n, shift) ==
    IF n = 0 \/ c >= Len(t) \/ t[c + 1] = NL
    THEN [cursor |-> c, selection |-> sel, panic |-> FALSE,
          overflow |-> FALSE]
    ELSE LET m == MoveCursor(t, c, sel, 1, shift)
         IN  IF m.overflow THEN m
             ELSE WithinLine(t, m.cursor, m.selection, n - 1, shift)

\* assert!(dx >= 0, "not implemented")
move_cursor_within_line(dx, shift) ==
    LET m == IF dx >= 0 THEN WithinLine(text, cursor, selection, dx, shift)
             ELSE [cursor |-> cursor, selection |-> selection, panic |-> TRUE,
                   overflow |-> FALSE]
    IN  /\ ~panicked
        /\ cursor' = m.cursor
        /\ selection' = m.selection
        /\ panicked' \in Outcome(m)
        /\ UNCHANGED <<text, clickVars, undo_stack, redo_stack>>

select_all ==
    /\ ~panicked
    /\ selection' = <<0, Len(text)>>
    /\ click_state' = ClickNone
    /\ UNCHANGED <<text, cursor, clicks_counter, current_click,
                   last_click_time, last_click, undo_stack, redo_stack,
                   panicked>>

\* mutant: dropping the selection also drops the commands to redo
deselect_ClearsRedo ==
    /\ ~panicked
    /\ click_state' = ClickNone
    /\ selection' = None
    /\ redo_stack' = <<>>
    /\ UNCHANGED <<text, cursor, clicks_counter, current_click,
                   last_click_time, last_click, undo_stack, panicked>>

deselect ==
    /\ ~panicked
    /\ click_state' = ClickNone
    /\ selection' = None
    /\ UNCHANGED <<text, cursor, clicks_counter, current_click,
                   last_click_time, last_click, undo_stack, redo_stack,
                   panicked>>

\* the range select_word returns, for self.cursor = c
WordRange(t, c) == <<c - find_word_begin(t, c), c + find_word_end(t, c)>>

\* the range select_line returns, for self.cursor = c
LineRange(t, c) == <<c - find_line_begin(t, c), c + find_line_end(t, c)>>

select_word ==
    /\ ~panicked
    /\ selection' = WordRange(text, cursor)
    /\ UNCHANGED <<text, cursor, clickVars, undo_stack, redo_stack, panicked>>

select_line ==
    /\ ~panicked
    /\ selection' = LineRange(text, cursor)
    /\ UNCHANGED <<text, cursor, clickVars, undo_stack, redo_stack, panicked>>

click_down(time, c) ==
    /\ ~panicked
    /\ current_click' = c
    /\ IF last_click = c /\ time - last_click_time < DOUBLE_CLICK_TIME
       THEN /\ clicks_counter' = clicks_counter + 1
            /\ CASE clicks_counter' % 3 = 0 ->
                      /\ selection' = None
                      /\ click_state' = ClickNone
                 [] clicks_counter' % 3 = 1 ->
                      /\ selection' = WordRange(text, cursor)
                      /\ click_state' = SelectingWords(selection')
                 [] clicks_counter' % 3 = 2 ->
                      /\ selection' = LineRange(text, cursor)
                      /\ click_state' = SelectingLines(selection')
            /\ UNCHANGED cursor
       ELSE /\ clicks_counter' = 0
            /\ IF click_state.kind \in {"None", "Selected"}
               THEN /\ click_state' = SelectingChars(c)
                    /\ selection' = <<c, c>>
                    /\ UNCHANGED cursor
               ELSE /\ click_state' = ClickNone
                    /\ selection' = None
                    /\ cursor' = c
    /\ last_click_time' = time
    /\ last_click' = c
    /\ UNCHANGED <<text, undo_stack, redo_stack, panicked>>

\* mutant: a character drag stores its selection in buffer order
click_move_Normalised(c) ==
    /\ ~panicked
    /\ clicks_counter' = IF c # last_click THEN 0 ELSE clicks_counter
    /\ CASE click_state.kind = "SelectingChars" ->
              /\ selection' = <<Min(click_state.from, c),
                               Max(click_state.from, c)>>
              /\ cursor' = c
         [] click_state.kind = "SelectingWords" ->
              LET from == click_state.from
                  to == click_state.to
              IN  IF c < from
                  THEN LET word_begin == c - find_word_begin(text, c)
                       IN  /\ selection' = <<word_begin, to>>
                           /\ cursor' = word_begin
                  ELSE IF c > to
                  THEN LET word_end == c + find_word_end(text, c)
                       IN  /\ selection' = <<from, word_end>>
                           /\ cursor' = word_end
                  ELSE /\ selection' = <<from, to>>
                       /\ cursor' = to
         [] click_state.kind = "SelectingLines" ->
              LET from == click_state.from
                  to == click_state.to
              IN  IF c < from
                  THEN LET line_begin == c - find_line_begin(text, c)
                           line_end == c + find_line_end(text, c)
                       IN  /\ selection' = <<line_begin, to>>
                           /\ cursor' = line_end
                  ELSE IF c > to
                  THEN LET line_end == c + find_line_end(text, c)
                       IN  /\ selection' = <<from, line_end>>
                           /\ cursor' = line_end
                  ELSE /\ selection' = <<from, to>>
                       /\ cursor' = to
         [] OTHER ->
              /\ cursor' = c
              /\ UNCHANGED selection
    /\ last_click' = c
    /\ UNCHANGED <<text, click_state, current_click, last_click_time,
                   undo_stack, redo_stack, panicked>>

\* mutant: a word or line drag to the right restarts at the pointer
click_move_FromPointer(c) ==
    /\ ~panicked
    /\ clicks_counter' = IF c # last_click THEN 0 ELSE clicks_counter
    /\ CASE click_state.kind = "SelectingChars" ->
              /\ selection' = <<click_state.from, c>>
              /\ cursor' = c
         [] click_state.kind = "SelectingWords" ->
              LET from == click_state.from
                  to == click_state.to
              IN  IF c < from
                  THEN LET word_begin == c - find_word_begin(text, c)
                       IN  /\ selection' = <<word_begin, to>>
                           /\ cursor' = word_begin
                  ELSE IF c > to
                  THEN LET word_end == c + find_word_end(text, c)
                       IN  /\ selection' = <<c, word_end>>
                           /\ cursor' = word_end
                  ELSE /\ selection' = <<from, to>>
                       /\ cursor' = to
         [] click_state.kind = "SelectingLines" ->
              LET from == click_state.from
                  to == click_state.to
              IN  IF c < from
                  THEN LET line_begin == c - find_line_begin(text, c)
                           line_end == c + find_line_end(text, c)
                       IN  /\ selection' = <<line_begin, to>>
                           /\ cursor' = line_end
                  ELSE IF c > to
                  THEN LET line_end == c + find_line_end(text, c)
                       IN  /\ selection' = <<c, line_end>>
                           /\ cursor' = line_end
                  ELSE /\ selection' = <<from, to>>
                       /\ cursor' = to
         [] OTHER ->
              /\ cursor' = c
              /\ UNCHANGED selection
    /\ last_click' = c
    /\ UNCHANGED <<text, click_state, current_click, last_click_time,
                   undo_stack, redo_stack, panicked>>

\* mutant: a pointer move outside a drag drops the selection
click_move_Deselects(c) ==
    /\ ~panicked
    /\ clicks_counter' = IF c # last_click THEN 0 ELSE clicks_counter
    /\ CASE click_state.kind = "SelectingChars" ->
              /\ selection' = <<click_state.from, c>>
              /\ cursor' = c
         [] click_state.kind = "SelectingWords" ->
              LET from == click_state.from
                  to == click_state.to
              IN  IF c < from
                  THEN LET word_begin == c - find_word_begin(text, c)
                       IN  /\ selection' = <<word_begin, to>>
                           /\ cursor' = word_begin
                  ELSE IF c > to
                  THEN LET word_end == c + find_word_end(text, c)
                       IN  /\ selection' = <<from, word_end>>
                           /\ cursor' = word_end
                  ELSE /\ selection' = <<from, to>>
                       /\ cursor' = to
         [] click_state.kind = "SelectingLines" ->
              LET from == click_state.from
                  to == click_state.to
              IN  IF c < from
                  THEN LET line_begin == c - find_line_begin(text, c)
                           line_end == c + find_line_end(text, c)
                       IN  /\ selection' = <<line_begin, to>>
                           /\ cursor' = line_end
                  ELSE IF c > to
                  THEN LET line_end == c + find_line_end(text, c)
                       IN  /\ selection' = <<from, line_end>>
                           /\ cursor' = line_end
                  ELSE /\ selection' = <<from, to>>
                       /\ cursor' = to
         [] OTHER ->
              /\ cursor' = c
              /\ selection' = None
    /\ last_click' = c
    /\ UNCHANGED <<text, click_state, current_click, last_click_time,
                   undo_stack, redo_stack, panicked>>

click_move(c) ==
    /\ ~panicked
    /\ clicks_counter' = IF c # last_click THEN 0 ELSE clicks_counter
    /\ CASE click_state.kind = "SelectingChars" ->
              /\ selection' = <<click_state.from, c>>
              /\ cursor' = c
         [] click_state.kind = "SelectingWords" ->
              LET from == click_state.from
                  to == click_state.to
              IN  IF c < from
                  THEN LET word_begin == c - find_word_begin(text, c)
                       IN  /\ selection' = <<word_begin, to>>
                           /\ cursor' = word_begin
                  ELSE IF c > to
                  THEN LET word_end == c + find_word_end(text, c)
                       IN  /\ selection' = <<from, word_end>>
                           /\ cursor' = word_end
                  ELSE /\ selection' = <<from, to>>
                       /\ cursor' = to
         [] click_state.kind = "SelectingLines" ->
              LET from == click_state.from
                  to == click_state.to
              IN  IF c < from
                  THEN LET line_begin == c - find_line_begin(text, c)
                           line_end == c + find_line_end(text, c)
                       IN  /\ selection' = <<line_begin, to>>
                           /\ cursor' = line_end
                  ELSE IF c > to
                  THEN LET line_end == c + find_line_end(text, c)
                       IN  /\ selection' = <<from, line_end>>
                           /\ cursor' = line_end
                  ELSE /\ selection' = <<from, to>>
                       /\ cursor' = to
         [] OTHER ->
              /\ cursor' = c
              /\ UNCHANGED selection
    /\ last_click' = c
    /\ UNCHANGED <<text, click_state, current_click, last_click_time,
                   undo_stack, redo_stack, panicked>>

\* mutant: a zero-width selection counts as a selection
click_up_KeepEmpty ==
    /\ ~panicked
    /\ IF selection # None
       THEN /\ click_state' = Selected
            /\ UNCHANGED selection
       ELSE /\ click_state' = ClickNone
            /\ selection' = None
    /\ UNCHANGED <<text, cursor, clicks_counter, current_click,
                   last_click_time, last_click, undo_stack, redo_stack,
                   panicked>>

\* mutant: a release without a selection leaves the drag open
click_up_KeepsSession ==
    /\ ~panicked
    /\ IF selection # None /\ selection[1] # selection[2]
       THEN /\ click_state' = Selected
            /\ UNCHANGED selection
       ELSE /\ UNCHANGED click_state
            /\ selection' = None
    /\ UNCHANGED <<text, cursor, clicks_counter, current_click,
                   last_click_time, last_click, undo_stack, redo_stack,
                   panicked>>

click_up ==
    /\ ~panicked
    /\ IF selection # None /\ selection[1] # selection[2]
       THEN /\ click_state' = Selected
            /\ UNCHANGED selection
       ELSE /\ click_state' = ClickNone
            /\ selection' = None
    /\ UNCHANGED <<text, cursor, clicks_counter, current_click,
                   last_click_time, last_click, undo_stack, redo_stack,
                   panicked>>

\* mutant: the command is copied to the redo stack and stays on the undo
\* stack
undo_KeepsCommand ==
    /\ ~panicked
    /\ IF undo_stack = <<>>
       THEN UNCHANGED <<text, cursor, undo_stack, redo_stack, panicked>>
       ELSE LET command == undo_stack[Len(undo_stack)]
                r == Unapply(command, text)
            IN  /\ UNCHANGED undo_stack
                /\ text' = r.text
                /\ cursor' = r.cursor
                /\ panicked' = r.panic
                /\ redo_stack' = IF r.panic THEN redo_stack
                                 ELSE Append(redo_stack, command)
    /\ UNCHANGED <<clickVars, selection>>

\* mutant: the call drops the selection, whatever the stack holds
undo_Deselects ==
    /\ ~panicked
    /\ IF undo_stack = <<>>
       THEN UNCHANGED <<text, cursor, undo_stack, redo_stack, panicked>>
       ELSE LET command == undo_stack[Len(undo_stack)]
                r == Unapply(command, text)
            IN  /\ undo_stack' = SubSeq(undo_stack, 1, Len(undo_stack) - 1)
                /\ text' = r.text
                /\ cursor' = r.cursor
                /\ panicked' = r.panic
                /\ redo_stack' = IF r.panic THEN redo_stack
                                 ELSE Append(redo_stack, command)
    /\ selection' = None
    /\ UNCHANGED clickVars

undo ==
    /\ ~panicked
    /\ IF undo_stack = <<>>
       THEN UNCHANGED <<text, cursor, undo_stack, redo_stack, panicked>>
       ELSE LET command == undo_stack[Len(undo_stack)]
                r == Unapply(command, text)
            IN  /\ undo_stack' = SubSeq(undo_stack, 1, Len(undo_stack) - 1)
                /\ text' = r.text
                /\ cursor' = r.cursor
                /\ panicked' = r.panic
                /\ redo_stack' = IF r.panic THEN redo_stack
                                 ELSE Append(redo_stack, command)
    /\ UNCHANGED <<clickVars, selection>>

\* mutant: the cursor stays where the undo left it
redo_KeepCursor ==
    /\ ~panicked
    /\ IF redo_stack = <<>>
       THEN UNCHANGED <<text, cursor, undo_stack, redo_stack, panicked>>
       ELSE LET command == redo_stack[Len(redo_stack)]
                r == Apply(command, text)
            IN  /\ redo_stack' = SubSeq(redo_stack, 1, Len(redo_stack) - 1)
                /\ text' = r.text
                /\ UNCHANGED cursor
                /\ panicked' \in Outcome(r)
                /\ undo_stack' = IF panicked' THEN undo_stack
                                 ELSE Append(undo_stack, command)
    /\ UNCHANGED <<clickVars, selection>>

redo ==
    /\ ~panicked
    /\ IF redo_stack = <<>>
       THEN UNCHANGED <<text, cursor, undo_stack, redo_stack, panicked>>
       ELSE LET command == redo_stack[Len(redo_stack)]
                r == Apply(command, text)
            IN  /\ redo_stack' = SubSeq(redo_stack, 1, Len(redo_stack) - 1)
                /\ text' = r.text
                /\ cursor' = r.cursor
                /\ panicked' \in Outcome(r)
                /\ undo_stack' = IF panicked' THEN undo_stack
                                 ELSE Append(undo_stack, command)
    /\ UNCHANGED <<clickVars, selection>>

-----------------------------------------------------------------------------
(* History variables.  They record what a call did and never feed back     *)
(* into the editor.                                                        *)

\* the call `name`
Called(name) ==
    /\ op' = name
    /\ recorded' = (~panicked' /\ undo_stack' # undo_stack)
    /\ dropped' = IF name \in {"undo", "redo"} \/ redo_stack' # <<>> THEN 0
                  ELSE Len(redo_stack)
    /\ was' = click_state.kind

\* the call is recorded with the text and cursor before and after each
\* command, kept beside the command as it moves between the stacks
Track(name) ==
    /\ Called(name)
    /\ IF ~recorded' THEN
           /\ undo_hist' = undo_hist
           /\ redo_hist' = IF redo_stack' = <<>> THEN <<>> ELSE redo_hist
       ELSE IF name = "undo" THEN
           /\ undo_hist' = SubSeq(undo_hist, 1, Len(undo_hist) - 1)
           /\ redo_hist' = Append(redo_hist, undo_hist[Len(undo_hist)])
       ELSE IF name = "redo" THEN
           /\ redo_hist' = SubSeq(redo_hist, 1, Len(redo_hist) - 1)
           /\ undo_hist' = Append(undo_hist, redo_hist[Len(redo_hist)])
       ELSE
           /\ undo_hist' = Append(undo_hist,
                  [before |-> <<text, cursor>>, after |-> <<text', cursor'>>])
           /\ redo_hist' = <<>>

\* only the call is recorded
Light(name) ==
    /\ Called(name)
    /\ UNCHANGED <<undo_hist, redo_hist>>

-----------------------------------------------------------------------------
(* Inputs.                                                                 *)

A == <<97>>
E_ACUTE == <<195, 169>>

\* every valid string of at most n bytes over the chars cs
RECURSIVE StringsUpTo(_, _)
StringsUpTo(cs, n) ==
    {<<>>} \cup UNION {{c \o w : w \in StringsUpTo(cs, n - Len(c))} :
                       c \in {x \in cs : Len(x) <= n}}

Boundaries(t) == {i \in 0..Len(t) : IsCharBoundary(t, i)}

\* EditboxState::default() beside the host's text t
InitWith(t) ==
    /\ text = t
    /\ cursor = 0
    /\ click_state = ClickNone
    /\ clicks_counter = 0
    /\ current_click = 0
    /\ last_click_time = 0
    /\ last_click = 0
    /\ selection = None
    /\ undo_stack = <<>>
    /\ redo_stack = <<>>
    /\ panicked = FALSE
    /\ op = "new"
    /\ recorded = FALSE
    /\ dropped = 0
    /\ was = "None"
    /\ undo_hist = <<>>
    /\ redo_hist = <<>>

-----------------------------------------------------------------------------
(* SpecEdit: the edits, undo/redo and cursor moves on buffers of one- and  *)
(* two-byte chars.                                                         *)

EditChars == {A, E_ACUTE}
EditStrings == {<<>>, A \o A}

Room(n) == Len(text) + n <= MaxLen /\ Len(undo_stack) < MaxHist

InitEdit == \E t \in {<<>>, A} : InitWith(t)

NextEdit ==
    \/ \E ch \in EditChars :
           Room(Len(ch)) /\ insert_character(ch) /\ Track("insert_character")
    \/ \E str \in EditStrings :
           Room(Len(str)) /\ insert_string(str) /\ Track("insert_string")
    \/ Room(0) /\ delete_selected /\ Track("delete_selected")
    \/ Room(0) /\ delete_next_character /\ Track("delete_next_character")
    \/ Room(0) /\ delete_current_character
               /\ Track("delete_current_character")
    \/ \E dx \in -MaxDelta..MaxDelta, shift \in BOOLEAN :
           move_cursor(dx, shift) /\ Track("move_cursor")
    \/ undo /\ Track("undo")
    \/ redo /\ Track("redo")

SpecEdit == InitEdit /\ [][NextEdit]_vars

-----------------------------------------------------------------------------
(* SpecClick: the click state machine on a buffer of two lines, the first  *)
(* of two words.  The host's clock has run for DOUBLE_CLICK_TIME before    *)
(* the first click; offsets are scalar-value boundaries of the buffer.     *)

B == <<98>>
C == <<99>>
ClickTexts == {A \o <<SPACE>> \o B \o <<NL>> \o C}

ClickTimes == {t \in DOUBLE_CLICK_TIME..MaxTime : t >= last_click_time}

InitClick == \E t \in ClickTexts : InitWith(t)

NextClick ==
    \/ \E time \in ClickTimes, c \in Boundaries(text) :
           /\ clicks_counter < MaxClicks
           /\ click_down(time, c) /\ Light("click_down")
    \/ \E c \in Boundaries(text) : click_move(c) /\ Light("click_move")
    \/ click_up /\ Light("click_up")

SpecClick == InitClick /\ [][NextClick]_vars

-----------------------------------------------------------------------------
(* SpecFresh: the three click calls as in SpecClick, with timestamps from  *)
(* 0 on, so that the first click_down may come less than DOUBLE_CLICK_TIME *)
(* after the construction of the state.                                    *)

FreshTimes == {t \in 0..MaxTime : t >= last_click_time}

NextFresh ==
    \/ \E time \in FreshTimes, c \in Boundaries(text) :
           /\ clicks_counter < MaxClicks
           /\ click_down(time, c) /\ Light("click_down")
    \/ \E c \in Boundaries(text) : click_move(c) /\ Light("click_move")
    \/ click_up /\ Light("click_up")

SpecFresh == InitClick /\ [][NextFresh]_vars

-----------------------------------------------------------------------------
(* SpecExample: range deletes, undo/redo and word moves on the buffers     *)
(* "hello world" and "abc def", from the states that move_cursor reaches   *)
(* on them: any cursor, with no selection or one from any anchor to it.    *)

HelloWorld == <<104, 101, 108, 108, 111, 32, 119, 111, 114, 108, 100>>
Helorld == <<104, 101, 108, 111, 114, 108, 100>>
HeWorld == <<104, 101, 32, 119, 111, 114, 108, 100>>
AbcDef == <<97, 98, 99, 32, 100, 101, 102>>

InitExample ==
    \E t \in {HelloWorld, AbcDef} :
        /\ InitWith(t)!1
        /\ cursor \in 0..Len(t)
        /\ selection \in {None} \cup {<<a, cursor>> : a \in 0..Len(t)}
        /\ click_state = ClickNone
        /\ clicks_counter = 0
        /\ current_click = 0
        /\ last_click_time = 0
        /\ last_click = 0
        /\ undo_stack = <<>>
        /\ redo_stack = <<>>
        /\ panicked = FALSE
        /\ op = "new"
        /\ recorded = FALSE
        /\ dropped = 0
        /\ was = "None"
        /\ undo_hist = <<>>
        /\ redo_hist = <<>>

NextExample ==
    \/ Len(undo_stack) < MaxEdits /\ delete_selected /\ Track("delete_selected")
    \/ undo /\ Track("undo")
    \/ redo /\ Track("redo")
    \/ \E shift \in BOOLEAN :
           move_cursor_next_word(shift) /\ Track("move_cursor_next_word")
    \/ \E shift \in BOOLEAN :
           move_cursor_prev_word(shift) /\ Track("move_cursor_prev_word")

SpecExample == InitExample /\ [][NextExample]_vars

-----------------------------------------------------------------------------
(* Spec: every public operation of EditboxState, in any order.  The host   *)
(* passes click offsets that are in range and on char boundaries of the    *)
(* buffer at the time of the call, and counts >= 0 to                      *)
(* move_cursor_within_line, as its contract requires.  Every click_down    *)
(* carries the timestamp DOUBLE_CLICK_TIME: the first one is no repeat     *)
(* click, a later one is a repeat click when it is at the last offset.     *)

\* the call history is not kept
Quiet == UNCHANGED <<op, recorded, dropped, was, undo_hist, redo_hist>>

\* one more edit fits the bounds of this specification
RoomOne(n) == Len(text) + n <= MaxLen /\ Len(undo_stack) < MaxEdits

Init == \E t \in {<<>>, A} : InitWith(t)

Next ==
    \/ \E ch \in EditChars :
           RoomOne(Len(ch)) /\ insert_character(ch) /\ Quiet
    \/ \E str \in EditStrings :
           RoomOne(Len(str)) /\ insert_string(str) /\ Quiet
    \/ RoomOne(0) /\ delete_selected /\ Quiet
    \/ RoomOne(0) /\ delete_next_character /\ Quiet
    \/ RoomOne(0) /\ delete_current_character /\ Quiet
    \/ \E dx \in -MaxDelta..MaxDelta, shift \in BOOLEAN :
           move_cursor(dx, shift) /\ Quiet
    \/ \E shift \in BOOLEAN :
           move_cursor_next_word(shift) /\ Quiet
    \/ \E shift \in BOOLEAN :
           move_cursor_prev_word(shift) /\ Quiet
    \/ \E dx \in 0..MaxDelta, shift \in BOOLEAN :
           move_cursor_within_line(dx, shift) /\ Quiet
    \/ selected_text /\ Quiet
    \/ select_all /\ Quiet
    \/ deselect /\ Quiet
    \/ select_word /\ Quiet
    \/ select_line /\ Quiet
    \/ \E time \in {DOUBLE_CLICK_TIME}, c \in Boundaries(text) :
           /\ clicks_counter < MaxClicks
           /\ click_down(time, c) /\ Quiet
    \/ \E c \in Boundaries(text) : click_move(c) /\ Quiet
    \/ click_up /\ Quiet
    \/ undo /\ Quiet
    \/ redo /\ Quiet

Spec == Init /\ [][Next]_vars

-----------------------------------------------------------------------------
(* SpecGesture: the cursor moves, the select_* calls and the three click   *)
(* calls, between single-character inserts, undo and redo, so that they    *)
(* run with commands on both stacks.  Clicks are timed as in Spec.         *)

InitGesture == \E t \in {<<>>, A} : InitWith(t)

NextGesture ==
    \/ \E ch \in {A, <<SPACE>>} :
           RoomOne(Len(ch)) /\ insert_character(ch) /\ Light("insert_character")
    \/ undo /\ Light("undo")
    \/ redo /\ Light("redo")
    \/ \E dx \in -MaxDelta..MaxDelta, shift \in BOOLEAN :
           move_cursor(dx, shift) /\ Light("move_cursor")
    \/ \E shift \in BOOLEAN :
           move_cursor_next_word(shift) /\ Light("move_cursor_next_word")
    \/ \E shift \in BOOLEAN :
           move_cursor_prev_word(shift) /\ Light("move_cursor_prev_word")
    \/ \E dx \in 0..MaxDelta, shift \in BOOLEAN :
           move_cursor_within_line(dx, shift)
               /\ Light("move_cursor_within_line")
    \/ select_all /\ Light("select_all")
    \/ deselect /\ Light("deselect")
    \/ select_word /\ Light("select_word")
    \/ select_line /\ Light("select_line")
    \/ \E c \in Boundaries(text) :
           /\ clicks_counter < MaxClicks
           /\ click_down(DOUBLE_CLICK_TIME, c) /\ Light("click_down")
    \/ \E c \in Boundaries(text) : click_move(c) /\ Light("click_move")
    \/ click_up /\ Light("click_up")

SpecGesture == InitGesture /\ [][NextGesture]_vars

-----------------------------------------------------------------------------
(* SpecHost: the edits, undo/redo and cursor moves, with a host that also  *)
(* shortens its String between the calls, behind the editor's back.        *)

\* the host truncates the String it owns at a char boundary
host_truncate ==
    /\ ~panicked
    /\ \E n \in Boundaries(text) :
           /\ n < Len(text)
           /\ text' = SubSeq(text, 1, n)
    /\ UNCHANGED <<cursor, clickVars, selection, undo_stack, redo_stack,
                   panicked>>

InitHost == \E t \in {<<>>, A} : InitWith(t)

NextHost ==
    \/ \E ch \in EditChars :
           RoomOne(Len(ch)) /\ insert_character(ch) /\ Light("insert_character")
    \/ \E str \in EditStrings :
           RoomOne(Len(str)) /\ insert_string(str) /\ Light("insert_string")
    \/ RoomOne(0) /\ delete_selected /\ Light("delete_selected")
    \/ RoomOne(0) /\ delete_next_character /\ Light("delete_next_character")
    \/ RoomOne(0) /\ delete_current_character
                  /\ Light("delete_current_character")
    \/ \E dx \in -MaxDelta..MaxDelta, shift \in BOOLEAN :
           move_cursor(dx, shift) /\ Light("move_cursor")
    \/ undo /\ Light("undo")
    \/ redo /\ Light("redo")
    \/ host_truncate /\ Light("host_truncate")

SpecHost == InitHost /\ [][NextHost]_vars

-----------------------------------------------------------------------------
(* SpecMove: cursor moves of up to MaxJump bytes, plain and extending,     *)
(* word moves, select_all and deselect, on buffers with a two-byte char    *)
(* or a word delimiter.                                                    *)
(* A move that extends the selection is recorded as "move_cursor_extend".  *)

MoveTexts ==
    {A \o E_ACUTE \o B \o A, E_ACUTE \o A, A \o B, A \o <<SPACE>> \o B}

InitMove == \E t \in MoveTexts : InitWith(t)

NextMove ==
    \/ \E dx \in -MaxJump..MaxJump :
           move_cursor(dx, FALSE) /\ Light("move_cursor")
    \/ \E dx \in -MaxJump..MaxJump :
           move_cursor(dx, TRUE) /\ Light("move_cursor_extend")
    \/ \E shift \in BOOLEAN :
           move_cursor_next_word(shift) /\ Light("move_cursor_next_word")
    \/ \E shift \in BOOLEAN :
           move_cursor_prev_word(shift) /\ Light("move_cursor_prev_word")
    \/ select_all /\ Light("select_all")
    \/ deselect /\ Light("deselect")

SpecMove == InitMove /\ [][NextMove]_vars

-----------------------------------------------------------------------------
(* SpecLine: moves within the line of up to MaxJump characters, plain and  *)
(* extending, between free cursor moves, on buffers with a newline after   *)
(* a two-byte char, with a leading newline, and without a newline.         *)

LineTexts ==
    {A \o E_ACUTE \o <<NL>> \o B, <<NL>> \o A, A \o B}

InitLine == \E t \in LineTexts : InitWith(t)

NextLine ==
    \/ \E dx \in -MaxJump..MaxJump, shift \in BOOLEAN :
           move_cursor(dx, shift) /\ Light("move_cursor")
    \/ \E dx \in 0..MaxJump, shift \in BOOLEAN :
           move_cursor_within_line(dx, shift)
               /\ Light("move_cursor_within_line")
    \/ select_all /\ Light("select_all")
    \/ deselect /\ Light("deselect")

SpecLine == InitLine /\ [][NextLine]_vars

-----------------------------------------------------------------------------
(* SpecScan: select_word and select_line, which run the four scans from    *)
(* the cursor, between cursor moves, on every buffer of at most            *)
(* MaxLen + 1 bytes over a letter, a two-byte char, a space and a newline, *)
(* the empty buffer included.                                              *)

ScanTexts == StringsUpTo({A, E_ACUTE, <<SPACE>>, <<NL>>}, MaxLen + 1)

InitScan == \E t \in ScanTexts : InitWith(t)

NextScan ==
    \/ \E dx \in -MaxDelta..MaxDelta :
           move_cursor(dx, FALSE) /\ Light("move_cursor")
    \/ select_word /\ Light("select_word")
    \/ select_line /\ Light("select_line")
    \/ deselect /\ Light("deselect")

SpecScan == InitScan /\ [][NextScan]_vars

-----------------------------------------------------------------------------
(* Properties.                                                             *)

EditOps == {"insert_character", "insert_string", "delete_selected",
            "delete_next_character", "delete_current_character"}

\* the entry of the command the last undo moved to the redo stack
Undone == redo_hist[Len(redo_hist)]
\* the entry of the command the last redo moved to the undo stack
Redone == undo_hist[Len(undo_hist)]
UndoneCommand == redo_stack[Len(redo_stack)]

(* C1, as claimed: every undo that unapplies a command leaves the buffer   *)
(* and the cursor exactly as they were before the edit that recorded the   *)
(* command, so n undos after n edits restore both in reverse order.        *)
C1_UndoRestoresBufferAndCursor ==
    (op = "undo" /\ recorded) =>
        (text = Undone.before[1] /\ cursor = Undone.before[2])

(* C1, amended: every undo restores the buffer as it was before the edit;  *)
(* the cursor is restored when the edit was an insertion, is at the lower  *)
(* bound of the range after undoing a delete_selected, and is one past the *)
(* deletion offset after undoing a single-character delete.                *)
C1_UndoRestoresBuffer ==
    (op = "undo" /\ recorded) =>
        /\ text = Undone.before[1]
        /\ UndoneCommand.kind \in {"InsertCharacter", "InsertString"} =>
               cursor = Undone.before[2]
        /\ UndoneCommand.kind = "DeleteRange" =>
               cursor = Min(UndoneCommand.range[1], UndoneCommand.range[2])
        /\ UndoneCommand.kind = "DeleteCharacter" =>
               cursor = UndoneCommand.cursor + 1

\* two edits, the second at a multi-byte char, both undone
C1_Witness ==
    /\ op = "undo" /\ recorded
    /\ Len(redo_stack) >= 2 /\ undo_stack = <<>>
    /\ redo_stack[1].data = E_ACUTE
    /\ text = Undone.before[1]

(* C2: every redo that re-applies a command leaves the buffer and the      *)
(* cursor exactly as they were right after the edit that recorded the      *)
(* command; so k undos followed by k redos end in the state the last of    *)
(* the undone edits had produced.                                          *)
C2_RedoRestoresPostEdit ==
    (op = "redo" /\ recorded) =>
        (text = Redone.after[1] /\ cursor = Redone.after[2])

\* two undos followed by two redos
C2_Witness ==
    /\ op = "redo" /\ recorded
    /\ Len(undo_stack) >= 2 /\ redo_stack = <<>>
    /\ text = Redone.after[1] /\ cursor = Redone.after[2]
    /\ Redone.before[2] # Redone.after[2]

(* C3: an edit that records a command leaves the redo stack empty, also    *)
(* after undos, and a redo that follows it changes neither buffer nor      *)
(* cursor.                                                                 *)
C3_RedoInvalidation ==
    [][/\ (op' \in EditOps /\ recorded') => redo_stack' = <<>>
       /\ (op \in EditOps /\ recorded /\ op' = "redo") =>
              (text' = text /\ cursor' = cursor /\ undo_stack' = undo_stack)
      ]_vars

\* an edit that discarded pending redo entries
C3_Witness ==
    /\ op \in EditOps /\ recorded
    /\ dropped > 0
    /\ redo_stack = <<>>

(* C4: when the cursor is on a scalar-value boundary, it is on one again   *)
(* after every move_cursor and every edit that returns.                    *)
C4_BoundarySafety ==
    [][(/\ IsCharBoundary(text, cursor)
        /\ op' \in EditOps \cup {"move_cursor"}
        /\ ~panicked')
       => IsCharBoundary(text', cursor')]_vars

\* a move that stepped over the two bytes of a char
C4_Witness ==
    /\ op = "move_cursor"
    /\ text = E_ACUTE
    /\ cursor = Len(text)
    /\ selection = <<0, Len(text)>>

Separators == {SPACE, LPAREN, RPAREN, SEMI, QUOTE, NL}

\* the run of bytes outside seps around byte o of t, <<o, o>> when byte o
\* is in seps or o is the end of t
RunAround(t, o, seps) ==
    IF o < Len(t) /\ t[o + 1] \notin seps
    THEN <<CHOOSE p \in 0..o :
               /\ \A i \in (p + 1)..o : t[i] \notin seps
               /\ (p = 0 \/ t[p] \in seps),
           CHOOSE q \in (o + 1)..Len(t) :
               /\ \A i \in (o + 1)..q : t[i] \notin seps
               /\ (q = Len(t) \/ t[q + 1] \in seps)>>
    ELSE <<o, o>>

\* the selection covers the range r
Spans(sel, r) ==
    sel # None /\ Min(sel[1], sel[2]) <= r[1] /\ r[2] <= Max(sel[1], sel[2])

(* C7: a click_down that follows a click_up (or starts from Idle) gives,   *)
(* by its place in the run of repeat clicks: a character-selection session *)
(* with selection (o,o); a word selection that spans the word at the       *)
(* clicked offset o; a line selection that spans the line at o; then no    *)
(* selection and Idle, after which the cycle restarts.                     *)
C7_ClickCycling ==
    (op = "click_down" /\ was \in {"None", "Selected"}) =>
        /\ clicks_counter = 0 =>
               /\ click_state = SelectingChars(last_click)
               /\ selection = <<last_click, last_click>>
        /\ clicks_counter % 3 = 1 =>
               /\ click_state.kind = "SelectingWords"
               /\ Spans(selection, RunAround(text, last_click, Separators))
        /\ clicks_counter % 3 = 2 =>
               /\ click_state.kind = "SelectingLines"
               /\ Spans(selection, RunAround(text, last_click, {NL}))
        /\ (clicks_counter > 0 /\ clicks_counter % 3 = 0) =>
               /\ click_state = ClickNone
               /\ selection = None

(* C8, as claimed: a click_up that directly follows a click_down leaves    *)
(* no selection and the click state Idle.                                  *)
C8_ReleaseCollapses ==
    [][(op = "click_down" /\ op' = "click_up") =>
           (selection' = None /\ click_state' = ClickNone)]_vars

(* C8, amended: a click_up that directly follows a click_down that was not *)
(* counted as a repeat click leaves no selection and the click state Idle. *)
C8_ReleaseCollapsesSingleClick ==
    [][(op = "click_down" /\ clicks_counter = 0 /\ op' = "click_up") =>
           (selection' = None /\ click_state' = ClickNone)]_vars

\* a character-selection session released without a drag
C8_Witness ==
    /\ op = "click_up" /\ was = "SelectingChars"
    /\ clicks_counter = 0
    /\ selection = None /\ click_state = ClickNone
    /\ last_click = current_click /\ last_click > 0

\* delete_selected on "hello world" with the selection [2,5), in either
\* order, leaves the buffer t and cursor 2, and an undo right after it
\* leaves "hello world", cursor 2 and no selection
RangeDeleteRoundTrip(t) ==
    /\ (/\ op' = "delete_selected"
        /\ text = HelloWorld
        /\ selection \in {<<2, 5>>, <<5, 2>>})
       => (text' = t /\ cursor' = 2 /\ recorded')
    /\ (/\ op = "delete_selected" /\ recorded
        /\ undo_hist[Len(undo_hist)].before[1] = HelloWorld
        /\ undo_stack[Len(undo_stack)].range \in {<<2, 5>>, <<5, 2>>}
        /\ op' = "undo")
       => (text' = HelloWorld /\ cursor' = 2 /\ selection' = None)

(* C9, as claimed: on "hello world" with the selection [2,5),              *)
(* delete_selected leaves "helorld" and cursor 2; an undo right after it   *)
(* leaves "hello world", cursor 2 and no selection.                        *)
C9_RangeDeleteRoundTrip == [][RangeDeleteRoundTrip(Helorld)]_vars

(* C9, amended: on "hello world" with the selection [2,5), delete_selected *)
(* leaves "he world" and cursor 2; an undo right after it leaves           *)
(* "hello world", cursor 2 and no selection.                               *)
C9_RangeDeleteRoundTripHeWorld == [][RangeDeleteRoundTrip(HeWorld)]_vars

\* "llo" deleted from "hello world" and put back by an undo
C9_Witness ==
    /\ op = "undo" /\ recorded
    /\ text = HelloWorld /\ cursor = 2 /\ selection = None
    /\ Undone.after[1] = HeWorld
    /\ UndoneCommand.range = <<5, 2>>
    /\ UndoneCommand.data = <<108, 108, 111>>

(* C10: on "abc def" with the cursor at 0, move_cursor_next_word leaves    *)
(* the cursor at 4, on the d, not at 3, on the space.                      *)
C10_NextWordLandsOnWord ==
    [][(text = AbcDef /\ cursor = 0 /\ op' = "move_cursor_next_word") =>
           (cursor' = 4 /\ text'[cursor' + 1] = 100)]_vars

\* the cursor on the d of "abc def" after a word move that selected "abc "
C10_Witness ==
    /\ op = "move_cursor_next_word"
    /\ text = AbcDef /\ cursor = 4
    /\ selection = <<0, 4>>

(* C5: after every operation that returns, 0 <= cursor <= length(buffer).  *)
C5_CursorInRange == panicked \/ (0 <= cursor /\ cursor <= Len(text))

(* C6: no operation panics.                                                *)
C6_NoFailure == ~panicked

\* buffer, cursor, selection, click state and both stacks stay as they
\* are and the call returns
SilentNoOp ==
    /\ UNCHANGED <<text, cursor, selection, click_state, undo_stack,
                   redo_stack>>
    /\ ~panicked'

(* C11: undo on an empty undo stack and redo on an empty redo stack leave  *)
(* buffer, cursor, selection, click state and both stacks unchanged and    *)
(* raise no error.                                                         *)
C11_EmptyStackNoOp ==
    [][/\ (op' = "undo" /\ undo_stack = <<>>) => SilentNoOp
       /\ (op' = "redo" /\ redo_stack = <<>>) => SilentNoOp]_vars

\* an undo with nothing to undo, on a settled selection
C11_Witness ==
    /\ op = "undo" /\ ~panicked
    /\ undo_stack = <<>> /\ redo_stack = <<>>
    /\ click_state = Selected /\ selection # None
    /\ text # <<>>

\* the offset where apply works (for a range, its upper end) lies beyond
\* the end of the buffer t
BeyondApply(cmd, t) ==
    IF cmd.kind = "DeleteRange"
    THEN Max(cmd.range[1], cmd.range[2]) > Len(t)
    ELSE cmd.cursor > Len(t)

\* the offset where unapply works (for a range, its lower end, where the
\* deleted text goes back) lies beyond the end of the buffer t
BeyondUnapply(cmd, t) ==
    IF cmd.kind = "DeleteRange"
    THEN Min(cmd.range[1], cmd.range[2]) > Len(t)
    ELSE cmd.cursor > Len(t)

(* C12: when the host has shortened the buffer so that the offset or range *)
(* of the command on top of a stack lies beyond the buffer's length, the   *)
(* undo or redo of that command leaves the buffer unchanged and returns.   *)
C12_DefensiveCommands ==
    [][/\ (/\ op' = "undo" /\ undo_stack # <<>>
           /\ BeyondUnapply(undo_stack[Len(undo_stack)], text))
          => (text' = text /\ ~panicked')
       /\ (/\ op' = "redo" /\ redo_stack # <<>>
           /\ BeyondApply(redo_stack[Len(redo_stack)], text))
          => (text' = text /\ ~panicked')]_vars

(* C13: after every edit that changes the buffer, selection = None.        *)
C13_EditClearsSelection ==
    [][(op' \in EditOps /\ text' # text /\ ~panicked')
       => selection' = None]_vars

(* C14: on return from every edit the redo stack is empty, in every state  *)
(* the edit is called in.                                                  *)
C14_EditClearsRedo ==
    [][(op' \in EditOps /\ ~panicked') => redo_stack' = <<>>]_vars

GestureOps == {"click_down", "click_move", "click_up", "move_cursor",
               "move_cursor_next_word", "move_cursor_prev_word",
               "move_cursor_within_line", "select_all", "select_word",
               "select_line", "deselect"}

(* C15: the click calls, the cursor moves, the select_* calls and deselect *)
(* leave the buffer, the undo stack and the redo stack unchanged.          *)
C15_GesturesNotUndoable ==
    [][op' \in GestureOps => UNCHANGED <<text, undo_stack, redo_stack>>]_vars

\* a repeat click that dropped a selection while a command waits for redo
C15_Witness ==
    /\ op = "click_down" /\ ~panicked
    /\ clicks_counter = 3 /\ selection = None
    /\ redo_stack # <<>> /\ text # <<>>

\* the top of the stack from has moved to the top of the stack to
Moved(from, to, from2, to2) ==
    /\ from2 = SubSeq(from, 1, Len(from) - 1)
    /\ to2 = Append(to, from[Len(from)])

(* C16: an undo moves the top command of the undo stack to the top of the  *)
(* redo stack and a redo moves it back; neither changes the number of      *)
(* commands on the two stacks together.                                    *)
C16_CommandOwnership ==
    [][/\ (op' = "undo" /\ undo_stack # <<>> /\ ~panicked')
          => Moved(undo_stack, redo_stack, undo_stack', redo_stack')
       /\ (op' = "redo" /\ redo_stack # <<>> /\ ~panicked')
          => Moved(redo_stack, undo_stack, redo_stack', undo_stack')
       /\ (op' \in {"undo", "redo"} /\ ~panicked')
          => Len(undo_stack') + Len(redo_stack')
                 = Len(undo_stack) + Len(redo_stack)]_vars

\* two different commands undone and the first of them redone
C16_Witness ==
    /\ op = "redo" /\ recorded
    /\ Len(undo_stack) = 1 /\ Len(redo_stack) = 1
    /\ undo_stack[1] # redo_stack[1]
    /\ undo_stack[1].kind = "InsertString"
    /\ redo_stack[1].kind = "DeleteCharacter"

(* C17: in_selected_range(o) is true exactly when a selection (a,b) exists *)
(* and min(a,b) <= o < max(a,b); it is false for every o when the          *)
(* selection is None or zero-width.                                        *)
C17_InSelectedRange ==
    \A o \in 0..(Len(text) + 1) :
        in_selected_range(o) <=>
            /\ selection # None
            /\ Min(selection[1], selection[2]) <= o
            /\ o < Max(selection[1], selection[2])

\* a selection whose head is before its anchor, with the cursor inside
C17_Witness ==
    /\ selection # None
    /\ selection[2] < selection[1]
    /\ in_selected_range(selection[2])
    /\ ~in_selected_range(selection[1])
    /\ op = "move_cursor_extend"

\* where a move by dx from c ends when c + dx is clamped to the buffer t
ClampedLanding(t, c, dx) ==
    LET p == Max(0, Min(c + dx, Len(t)))
    IN  IF dx > 0 THEN AlignForward(t, p)
        ELSE IF dx < 0 THEN AlignBackward(t, p)
        ELSE p

(* C18: for every delta, move_cursor leaves the cursor at the scalar-value *)
(* boundary reached from clamp(cursor + delta, 0, length).                 *)
C18_MoveCursorClamps ==
    \A dx \in -MaxJump..MaxJump, shift \in BOOLEAN :
        LET m == MoveCursor(text, cursor, selection, dx, shift)
        IN  ~m.overflow /\ m.cursor = ClampedLanding(text, cursor, dx)

(* C19: an extending move starts the selection (old cursor, new cursor)    *)
(* when none exists and otherwise changes only the head, to the new        *)
(* cursor; a move that does not extend leaves selection = None.            *)
C19_ShiftKeepsAnchor ==
    [][/\ (op' = "move_cursor_extend" /\ selection = None)
          => selection' = <<cursor, cursor'>>
       /\ (op' = "move_cursor_extend" /\ selection # None)
          => selection' = <<selection[1], cursor'>>
       /\ op' = "move_cursor" => selection' = None]_vars

\* a selection extended back over its anchor, across the two-byte char
C19_Witness ==
    /\ op = "move_cursor_extend"
    /\ text = A \o E_ACUTE \o B \o A
    /\ selection = <<3, 0>> /\ cursor = 0

(* C20: a repeat click_down at offset o that selects a word or a line      *)
(* leaves a selection range that contains o, whatever the cursor was.      *)
C20_RepeatClickSelectsAtOffset ==
    (op = "click_down" /\ clicks_counter % 3 \in {1, 2}) =>
        /\ selection # None
        /\ Min(selection[1], selection[2]) <= last_click
        /\ last_click <= Max(selection[1], selection[2])

(* C21: a click_down that follows an earlier click_down increments the     *)
(* repeat counter when its offset is that of the earlier click_down and    *)
(* its timestamp is less than DOUBLE_CLICK_TIME after it, and resets the   *)
(* counter to 0 in every other case.  current_click and last_click_time    *)
(* are written by click_down alone, so before the call they hold the       *)
(* offset and the timestamp of the earlier click_down.                     *)
C21_RepeatClickDetection ==
    [][(op' = "click_down" /\ last_click_time > 0) =>
           clicks_counter' =
               IF /\ current_click' = current_click
                  /\ last_click_time' - last_click_time < DOUBLE_CLICK_TIME
               THEN clicks_counter + 1
               ELSE 0]_vars

(* C22: every undo that unapplies a command leaves the buffer exactly as   *)
(* it was before the edit that recorded the command, wherever the cursor   *)
(* ends up; so n undos after n edits restore the buffer.                   *)
C22_UndoRestoresBufferAlone ==
    (op = "undo" /\ recorded) => text = Undone.before[1]

\* two edits undone, the buffer restored and the cursor elsewhere
C22_Witness ==
    /\ op = "undo" /\ recorded
    /\ undo_stack = <<>> /\ Len(redo_stack) = 2
    /\ text = Undone.before[1] /\ cursor # Undone.before[2]
    /\ redo_stack[2].kind = "DeleteCharacter"
    /\ redo_stack[1].kind = "InsertString"

(* C23: after insert_character or insert_string at a cursor c <= length    *)
(* the buffer is the old buffer with the text inserted at offset c, and    *)
(* the cursor is at c plus the encoded length of the inserted text.        *)
C23_InsertAtCursor ==
    [][(op' \in {"insert_character", "insert_string"} /\ cursor <= Len(text))
       => /\ ~panicked'
          /\ Len(undo_stack') = Len(undo_stack) + 1
          /\ LET inserted == undo_stack'[Len(undo_stack')].data
             IN  /\ text' = StrInsert(text, cursor, inserted)
                 /\ cursor' = cursor + Len(inserted)]_vars

(* C24: the undo of a single-character delete puts the deleted character   *)
(* back at the deletion offset and leaves the cursor immediately after     *)
(* it, for characters of every encoded width.                              *)
C24_UndoDeleteCharacter ==
    [][(/\ op' = "undo" /\ undo_stack # <<>>
        /\ undo_stack[Len(undo_stack)].kind = "DeleteCharacter")
       => LET command == undo_stack[Len(undo_stack)]
          IN  /\ ~panicked'
              /\ text' = StrInsert(text, command.cursor, command.data)
              /\ cursor' = command.cursor + Len(command.data)]_vars

(* C25: delete_selected with a selection (a,b), in either order, removes   *)
(* exactly the bytes [min(a,b), max(a,b)), sets the cursor to min(a,b)     *)
(* and pushes one command; with no selection it leaves buffer, cursor and  *)
(* undo stack unchanged; either way selection = None afterwards.           *)
C25_DeleteSelected ==
    [][op' = "delete_selected" =>
           /\ ~panicked'
           /\ selection' = None
           /\ IF selection = None
              THEN UNCHANGED <<text, cursor, undo_stack>>
              ELSE LET min == Min(selection[1], selection[2])
                       max == Max(selection[1], selection[2])
                   IN  /\ text' = StrCut(text, min, max)
                       /\ cursor' = min
                       /\ Len(undo_stack') = Len(undo_stack) + 1]_vars

\* the bytes [lo, hi) of t are one scalar value
OneChar(t, lo, hi) ==
    /\ lo < hi /\ hi <= Len(t)
    /\ ~IsContinuation(t[lo + 1])
    /\ hi - lo = Utf8Width(t[lo + 1])

(* C26: delete_current_character with 0 < cursor <= length removes exactly *)
(* the one scalar value that ends at the cursor, leaves the cursor where   *)
(* that scalar value began and pushes exactly one command; with cursor = 0 *)
(* it changes neither buffer nor cursor nor undo stack.                    *)
C26_Backspace ==
    [][op' = "delete_current_character" =>
           /\ ~panicked'
           /\ IF cursor = 0
              THEN UNCHANGED <<text, cursor, undo_stack>>
              ELSE cursor <= Len(text) =>
                       /\ OneChar(text, cursor', cursor)
                       /\ text' = StrCut(text, cursor', cursor)
                       /\ Len(undo_stack') = Len(undo_stack) + 1]_vars

\* a word begins at offset p of t: byte p is part of a word and the byte
\* before it, if any, is not
WordStart(t, p) ==
    /\ p < Len(t) /\ t[p + 1] \notin Separators
    /\ (p = 0 \/ t[p] \in Separators)

\* the smallest offset after c where a word begins, or the end of t
NextWordStart(t, c) ==
    LET starts == {p \in (c + 1)..Len(t) : WordStart(t, p)}
    IN  IF starts = {} THEN Len(t)
        ELSE CHOOSE p \in starts : \A q \in starts : p <= q

(* C27: move_cursor_next_word from a cursor < length lands on the smallest *)
(* offset after the cursor at which a word begins, or on the buffer end    *)
(* when there is none.                                                     *)
C27_NextWordStart ==
    [][(op' = "move_cursor_next_word" /\ cursor < Len(text))
       => cursor' = NextWordStart(text, cursor)]_vars

(* C28: from every cursor > 0, move_cursor_prev_word moves the cursor to a *)
(* strictly smaller offset (so repeated calls reach offset 0).             *)
C28_PrevWordProgress ==
    [][(op' = "move_cursor_prev_word" /\ cursor > 0)
       => cursor' < cursor]_vars

\* the scalar values of t that end in (a, b]
CharsPassed(t, a, b) ==
    Cardinality({k \in Boundaries(t) : a < k /\ k <= b})

\* the cursor c is on a newline of t or at (or beyond) the end of t
AtLineStop(t, c) == c >= Len(t) \/ t[c + 1] = NL

(* C29: move_cursor_within_line(count), count >= 0, advances the cursor by *)
(* at most count scalar values, over no newline byte, and stops short of   *)
(* count only on a newline or at the buffer end.                           *)
C29_WithinLine ==
    \A n \in 0..MaxJump, shift \in BOOLEAN :
        LET m == WithinLine(text, cursor, selection, n, shift)
        IN  /\ ~m.panic /\ ~m.overflow
            /\ m.cursor >= cursor
            /\ CharsPassed(text, cursor, m.cursor) <= n
            /\ \A k \in cursor..(m.cursor - 1) : text[k + 1] # NL
            /\ CharsPassed(text, cursor, m.cursor) < n
               => AtLineStop(text, m.cursor)

\* an extending move from offset 1 that stopped on the newline at 3
C29_Witness ==
    /\ op = "move_cursor_within_line"
    /\ text = A \o E_ACUTE \o <<NL>> \o B
    /\ selection = <<1, 3>> /\ cursor = 3
    /\ WithinLine(text, 1, None, MaxJump, TRUE).cursor = 3
    /\ WithinLine(text, cursor, selection, MaxJump, TRUE).cursor = 3

(* C30: while a character drag lasts, started by click_down at offset a,   *)
(* every click_move(o) leaves selection = (a, o) and cursor = o and the    *)
(* drag goes on, whichever way the pointer moves.                          *)
C30_CharDragKeepsAnchor ==
    [][(op' = "click_move" /\ click_state.kind = "SelectingChars")
       => /\ selection' = <<current_click, last_click'>>
          /\ cursor' = last_click'
          /\ click_state' = SelectingChars(current_click)]_vars

\* a drag from offset 2 back to offset 0
C30_Witness ==
    /\ op = "click_move" /\ was = "SelectingChars"
    /\ click_state = SelectingChars(2)
    /\ current_click = 2 /\ last_click = 0
    /\ selection = <<2, 0>> /\ cursor = 0

(* C31: while a word or line drag over the range (from, to) lasts, every   *)
(* click_move leaves a selection (s, e) with s <= from and e >= to, and a  *)
(* click_move to an offset in from..to leaves selection = (from, to) and   *)
(* cursor = to.                                                            *)
C31_DragCoversAnchorRange ==
    [][(op' = "click_move"
        /\ click_state.kind \in {"SelectingWords", "SelectingLines"})
       => /\ selection' # None
          /\ selection'[1] <= click_state.from
          /\ selection'[2] >= click_state.to
          /\ (click_state.from <= last_click' /\ last_click' <= click_state.to)
             => (selection' = <<click_state.from, click_state.to>>
                 /\ cursor' = click_state.to)
          /\ click_state' = click_state]_vars

\* a drag of the word "b" at (1, 3) to the line end at 5, beyond its range
C31_Witness ==
    /\ op = "click_move" /\ was = "SelectingWords"
    /\ click_state = SelectingWords(<<1, 3>>)
    /\ last_click = 4
    /\ selection # None /\ selection[1] = 1 /\ selection[2] > 3

(* C32: in a line drag over (from, to), a click_move to an offset before   *)
(* from moves the selection's left edge and the cursor to the line begin   *)
(* of that offset, and a click_move to an offset after to moves the right  *)
(* edge and the cursor to the line end of that offset.                     *)
C32_LineDragSymmetric ==
    [][(op' = "click_move" /\ click_state.kind = "SelectingLines")
       => LET o == last_click'
              line_begin == o - find_line_begin(text, o)
              line_end == o + find_line_end(text, o)
          IN  /\ o < click_state.from
                 => (selection' = <<line_begin, click_state.to>>
                     /\ cursor' = line_begin)
              /\ o > click_state.to
                 => (selection' = <<click_state.from, line_end>>
                     /\ cursor' = line_end)]_vars

(* C33: in click state None or Selected, click_move(o) sets the cursor to  *)
(* o and leaves the selection and the click state as they were.            *)
C33_MoveOutsideSession ==
    [][(op' = "click_move" /\ click_state.kind \in {"None", "Selected"})
       => /\ cursor' = last_click'
          /\ selection' = selection
          /\ click_state' = click_state]_vars

\* a pointer move to offset 4 over the released selection (0, 2)
C33_Witness ==
    /\ op = "click_move" /\ was = "Selected"
    /\ click_state = Selected
    /\ selection = <<0, 2>>
    /\ cursor = 4 /\ last_click = 4

(* C34: after click_up the click state is None or Selected; it is Selected *)
(* exactly when a selection with anchor # head exists, and otherwise the   *)
(* state is None and selection = None.                                     *)
C34_ClickUpEndsSession ==
    op = "click_up"
    => /\ click_state \in {ClickNone, Selected}
       /\ click_state = Selected
          <=> (selection # None /\ selection[1] # selection[2])
       /\ click_state = ClickNone => selection = None

\* the release of a character drag that never left its anchor
C34_Witness ==
    /\ op = "click_up" /\ was = "SelectingChars"
    /\ click_state = ClickNone /\ selection = None
    /\ last_click = current_click /\ cursor # current_click

\* the next click_down is at the offset of the click_down before it and
\* less than DOUBLE_CLICK_TIME after it
RepeatOfClickDown ==
    /\ last_click_time > 0
    /\ current_click' = current_click
    /\ last_click_time' - last_click_time < DOUBLE_CLICK_TIME

(* C35: a click_down at o that is not a repeat resets the state to None,   *)
(* the selection to None, the cursor to o and the repeat counter to 0 when *)
(* a drag is still open, and starts SelectingChars at o with the selection *)
(* (o, o) in state None or Selected.                                       *)
C35_NonRepeatClickDown ==
    [][(op' = "click_down" /\ ~RepeatOfClickDown)
       => LET o == current_click'
          IN  /\ clicks_counter' = 0
              /\ IF click_state.kind \in {"None", "Selected"}
                 THEN /\ click_state' = SelectingChars(o)
                      /\ selection' = <<o, o>>
                 ELSE /\ click_state' = ClickNone
                      /\ selection' = None
                      /\ cursor' = o]_vars

(* C36: the first click_down on a new EditboxState, at any offset o and    *)
(* any timestamp >= 0, starts a character drag: SelectingChars at o,       *)
(* selection (o, o), repeat counter 0.                                     *)
C36_FirstClickNotRepeat ==
    [][(op = "new" /\ op' = "click_down")
       => /\ click_state' = SelectingChars(current_click')
          /\ selection' = <<current_click', current_click'>>
          /\ clicks_counter' = 0]_vars

(* C37: in every reachable state a selection (a, b) that is not None has   *)
(* a <= length of the buffer and b <= length of the buffer.                *)
C37_SelectionInBuffer ==
    selection # None
    => (selection[1] <= Len(text) /\ selection[2] <= Len(text))

(* C38: in every reachable state, click state Selected implies a selection *)
(* that is not None and has anchor # head.                                 *)
C38_SelectedHasSelection ==
    click_state = Selected
    => (selection # None /\ selection[1] # selection[2])

(* C39: in every reachable state each call completes after finitely many   *)
(* steps: the re-alignment loops of move_cursor, insert_character and      *)
(* delete_current_character find a char boundary of the buffer, and do not *)
(* run on until the u32 cursor overflows.                                  *)
C39_LoopsTerminate ==
    ~panicked
    => /\ \A dx \in -MaxDelta..MaxDelta, shift \in BOOLEAN :
              ~MoveCursor(text, cursor, selection, dx, shift).overflow
       /\ \A ch \in EditChars :
              ~InsertCharacter_apply(InsertCharacter_new(cursor, ch),
                                     text).overflow
       /\ cursor > 0 => AlignBackward(text, cursor - 1) >= 0

(* C40: for every cursor c in 0..length, the four scans return a distance  *)
(* d >= 0 with c - d >= 0 (begin scans) or c + d <= length (end scans); on *)
(* the empty buffer all four return 0 at cursor 0, and select_word and     *)
(* select_line select (0, 0).                                              *)
C40_ScansStayInBuffer ==
    /\ \A c \in 0..Len(text) :
           /\ find_line_begin(text, c) \in 0..c
           /\ find_word_begin(text, c) \in 0..c
           /\ find_line_end(text, c) \in 0..(Len(text) - c)
           /\ find_word_end(text, c) \in 0..(Len(text) - c)
    /\ (op \in {"select_word", "select_line"} /\ cursor <= Len(text))
       => /\ selection # None
          /\ selection[1] \in 0..cursor
          /\ selection[2] \in cursor..Len(text)
          /\ text = <<>> => selection = <<0, 0>>

\* select_line on the empty buffer
C40_Witness ==
    /\ op = "select_line"
    /\ text = <<>> /\ cursor = 0
    /\ selection = <<0, 0>>
    /\ find_line_begin(text, 0) = 0 /\ find_line_end(text, 0) = 0
    /\ find_word_begin(text, 0) = 0 /\ find_word_end(text, 0) = 0

====
